---- MODULE Spec2Model ----
(***************************************************************************)
(* AutoUpdateManager of seafile-client (src/filebrowser/auto-update-mgr.cpp)*)
(* The manager watches cached files, uploads them when they change, defers  *)
(* the handling of deleted files to a delayed re-check, and starts a        *)
(* CachedFilesCleaner on a pool thread when the cache is cleaned.           *)
(*                                                                         *)
(* Four specifications:                                                    *)
(*   Spec         the event loop: the slots and public methods of the      *)
(*                manager, the file system and the Mac work-around; the    *)
(*                pool threads are not followed (pool = 0), the files they *)
(*                remove disappear as FsDelete steps;                      *)
(*   SpecFair     the event loop with the pending re-check timers fired    *)
(*                fairly (weak fairness of CheckFileRecreated);            *)
(*   SpecPool     the event loop for one cache file together with the      *)
(*                cleaners that cleanCachedFile starts;                    *)
(*   SpecCleaner  CachedFilesCleaner::run alone, twice in a row.           *)
(*                                                                         *)
(* Environment assumptions (Qt, not code of the repository):                *)
(*  - QFileSystemWatcher::addPath succeeds iff the file exists; removePath  *)
(*    of a watched file succeeds;                                           *)
(*  - the path computed from an empty repo_id and an empty path names no   *)
(*    cache file;                                                           *)
(*  - fileChanged(path) is only emitted for a path that is in files();      *)
(*  - an upload task emits finished(bool) exactly once;                     *)
(*  - single-shot timers of equal delay fire in the order they were         *)
(*    scheduled, and a handler observes one state of the file system.       *)
(***************************************************************************)
EXTENDS Integers, Sequences, FiniteSets, Bags, TLC

\* ---------------------------------------------------------------- bounds
MaxTasks == 2      \* uploads in flight at the same time
MaxQueue == 2      \* entries in deleted_files_infos_ (and pending timers)
MaxCleaners == 1   \* CachedFilesCleaner runnables alive in the thread pool

\* ---------------------------------------------------------------- inputs
Accounts == {"A1", "A2"}
NoAccount == "none"            \* a default-constructed Account
Repos == {"r1"}
PathsInRepo == {"a", "b"}

\* DataManager::getLocalCacheFilePath: the cache path of (repo_id, path);
\* a pure, injective function of the two identifiers.
getLocalCacheFilePath(repo_id, path) == <<"file-cache", repo_id, path>>

LocalPaths == {getLocalCacheFilePath(r, p) : r \in Repos, p \in PathsInRepo}

\* the calls of watchCachedFile: file a is cached for both accounts, file b
\* for one of them
WatchInputs == {<<"A1", "r1", "a">>, <<"A2", "r1", "a">>, <<"A1", "r1", "b">>}

\* ::mimeTypeFromFileName(path) is image/* or application/pdf (line 206)
IsImageOrPdf(local_path) == local_path[3] = "a"

\* WatchedFileInfo(account, repo_id, path_in_repo): a fresh entry
WatchedFileInfo(account, repo_id, path) ==
    [account |-> account, repo_id |-> repo_id, path_in_repo |-> path,
     uploading |-> FALSE]

\* WatchedFileInfo(): what QHash::operator[] inserts for a missing key
DefaultWatchedFileInfo == WatchedFileInfo(NoAccount, "", "")

VARIABLES
    watch_infos_,          \* QHash<QString, WatchedFileInfo>: the registry
    watcher_,              \* watcher_.files(): the armed paths
    deleted_files_infos_,  \* QQueue<WatchedFileInfo>: the deferred queue
    timers,                \* pending QTimer::singleShot(5000, checkFileRecreated)
    tasks,                 \* bag of the upload tasks started and not yet finished
    disk,                  \* cache files that exist (QFileInfo::exists)
    db_file, tmp_dir, cache_dir,  \* file-cache.db, file-cache-tmp, file-cache
    cleaners,              \* the CachedFilesCleaner runnables that are followed
    pool,                  \* how many runnables of the thread pool are followed
    images_                \* MacImageFilesWorkAround::images_: the entries younger than 10 s

mgr == <<watch_infos_, watcher_, deleted_files_infos_, timers, tasks>>
fsv == <<disk, db_file, tmp_dir, cache_dir>>
vars == <<watch_infos_, watcher_, deleted_files_infos_, timers, tasks,
          disk, db_file, tmp_dir, cache_dir, cleaners, pool, images_>>

\* the manager's members as one value, so that handlers can call each other
St == [watch_infos_ |-> watch_infos_, watcher_ |-> watcher_,
       deleted_files_infos_ |-> deleted_files_infos_,
       timers |-> timers, tasks |-> tasks]

Store(st) ==
    /\ watch_infos_' = st.watch_infos_
    /\ watcher_' = st.watcher_
    /\ deleted_files_infos_' = st.deleted_files_infos_
    /\ timers' = st.timers
    /\ tasks' = st.tasks

\* QHash insert / remove
Put(h, k, v) == [x \in DOMAIN h \cup {k} |-> IF x = k THEN v ELSE h[x]]
Remove(h, k) == [x \in DOMAIN h \ {k} |-> h[x]]
RemoveAt(s, i) == [j \in 1..(Len(s) - 1) |-> IF j < i THEN s[j] ELSE s[j + 1]]
One(t) == SetToBag({t})

\* ------------------------------------------------------------- helpers
\* anonymous-namespace addPath (lines 28-36)
\* QFileInfo(path).exists()
Exists(path) == path \in disk

addPath(files, file) ==
    IF file \in files THEN files
    ELSE IF file \in disk THEN files \cup {file}
    ELSE files

\* anonymous-namespace removePath (lines 38-46)
removePath(files, file) ==
    IF file \notin files THEN files ELSE files \ {file}

\* MacImageFilesWorkAround::isRecentOpenedImage (lines 211-219): path has
\* an entry in images_ that is younger than 10 s.  The class exists only
\* under Q_OS_MAC; another build behaves as one where no file is opened.
isRecentOpenedImage(path) == path \in images_

\* ------------------------------------------------------------- handlers
\* AutoUpdateManager::removeWatch (lines 171-175)
removeWatch(st, local_path) ==
    [st EXCEPT !.watch_infos_ = Remove(@, local_path),
               !.watcher_ = removePath(@, local_path)]

\* a variant that matches an entry on the repo or on the path alone
InDeferredList_Or(q, repo_id, path) ==
    \E i \in 1..Len(q) : repo_id = q[i].repo_id \/ path = q[i].path_in_repo

\* the loop over deleted_files_infos_ in watchCachedFile (lines 76-80)
InDeferredList(q, repo_id, path) ==
    \E i \in 1..Len(q) : repo_id = q[i].repo_id /\ path = q[i].path_in_repo

\* a variant without the test that the cache file exists
watchCachedFile_NoExistsCheck(st, account, repo_id, path) ==
    LET local_path == getLocalCacheFilePath(repo_id, path) IN
    IF InDeferredList(st.deleted_files_infos_, repo_id, path) THEN st
    ELSE [st EXCEPT
            !.watcher_ = addPath(@, local_path),
            !.watch_infos_ = Put(@, local_path,
                                 WatchedFileInfo(account, repo_id, path))]

\* a variant without the look-up in the deferred list
watchCachedFile_NoDeferredCheck(st, account, repo_id, path) ==
    LET local_path == getLocalCacheFilePath(repo_id, path) IN
    IF ~Exists(local_path) THEN st
    ELSE [st EXCEPT
            !.watcher_ = addPath(@, local_path),
            !.watch_infos_ = Put(@, local_path,
                                 WatchedFileInfo(account, repo_id, path))]

\* AutoUpdateManager::watchCachedFile (lines 63-84)
watchCachedFile(st, account, repo_id, path) ==
    LET local_path == getLocalCacheFilePath(repo_id, path) IN
    IF ~Exists(local_path) THEN st
    ELSE IF InDeferredList(st.deleted_files_infos_, repo_id, path) THEN st
    ELSE [st EXCEPT
            !.watcher_ = addPath(@, local_path),
            !.watch_infos_ = Put(@, local_path,
                                 WatchedFileInfo(account, repo_id, path))]

\* DataManager::createUploadTask(repo_id, parent, local_path, name, true)
UploadTask(info, local_path) ==
    [account |-> info.account, repo_id |-> info.repo_id,
     local_path |-> local_path, overwrite |-> TRUE]

\* a variant that enqueues the entry without scheduling the re-check
onFileChanged_NoTimer(st, local_path) ==
    IF isRecentOpenedImage(local_path) THEN st
    ELSE
    LET s1 == [st EXCEPT !.watcher_ = removePath(@, local_path)] IN
    IF local_path \notin DOMAIN s1.watch_infos_ THEN s1
    ELSE
    LET info == s1.watch_infos_[local_path] IN
    IF ~Exists(local_path)
    THEN LET s2 == removeWatch(s1, local_path) IN
         [s2 EXCEPT !.deleted_files_infos_ = Append(@, info)]
    ELSE [s1 EXCEPT !.tasks = @ (+) One(UploadTask(info, local_path)),
                    !.watch_infos_[local_path].uploading = TRUE]

\* AutoUpdateManager::onFileChanged (lines 103-144)
onFileChanged(st, local_path) ==
    IF isRecentOpenedImage(local_path) THEN st
    ELSE
    LET s1 == [st EXCEPT !.watcher_ = removePath(@, local_path)] IN
    IF local_path \notin DOMAIN s1.watch_infos_ THEN s1
    ELSE
    LET info == s1.watch_infos_[local_path] IN
    IF ~Exists(local_path)
    THEN LET s2 == removeWatch(s1, local_path) IN
         [s2 EXCEPT !.timers = @ + 1,
                    !.deleted_files_infos_ = Append(@, info)]
    ELSE [s1 EXCEPT !.tasks = @ (+) One(UploadTask(info, local_path)),
                    !.watch_infos_[local_path].uploading = TRUE]

\* AutoUpdateManager::onUpdateTaskFinished (lines 146-169), task = sender()
onUpdateTaskFinished(st, task, success) ==
    LET local_path == task.local_path
        s1 == [st EXCEPT !.tasks = @ (-) One(task)]
    IN
    IF success
    THEN LET s2 == [s1 EXCEPT !.watcher_ = addPath(@, local_path)]
             info == IF local_path \in DOMAIN s2.watch_infos_
                     THEN s2.watch_infos_[local_path]
                     ELSE DefaultWatchedFileInfo
         IN [s2 EXCEPT !.watch_infos_ =
                 Put(@, local_path, [info EXCEPT !.uploading = FALSE])]
    ELSE [s1 EXCEPT !.watch_infos_ = Remove(@, local_path)]

\* a variant that takes the newest entry of the queue instead of the oldest
checkFileRecreated_Lifo(st) ==
    LET s0 == [st EXCEPT !.timers = @ - 1] IN
    IF s0.deleted_files_infos_ = <<>> THEN s0
    ELSE
    LET n == Len(s0.deleted_files_infos_)
        info == s0.deleted_files_infos_[n]
        s1 == [s0 EXCEPT !.deleted_files_infos_ = SubSeq(@, 1, n - 1)]
        path == getLocalCacheFilePath(info.repo_id, info.path_in_repo)
    IN
    IF Exists(path)
    THEN onFileChanged([s1 EXCEPT !.watcher_ = addPath(@, path),
                                  !.watch_infos_ = Put(@, path, info)],
                       path)
    ELSE s1

\* a variant that puts the entry of a file that is still missing back at the
\* tail of the queue and schedules another re-check
checkFileRecreated_Retry(st) ==
    LET s0 == [st EXCEPT !.timers = @ - 1] IN
    IF s0.deleted_files_infos_ = <<>> THEN s0
    ELSE
    LET info == Head(s0.deleted_files_infos_)
        s1 == [s0 EXCEPT !.deleted_files_infos_ = Tail(@)]
        path == getLocalCacheFilePath(info.repo_id, info.path_in_repo)
    IN
    IF Exists(path)
    THEN onFileChanged([s1 EXCEPT !.watcher_ = addPath(@, path),
                                  !.watch_infos_ = Put(@, path, info)],
                       path)
    ELSE [s1 EXCEPT !.timers = @ + 1,
                    !.deleted_files_infos_ = Append(@, info)]

\* AutoUpdateManager::checkFileRecreated (lines 177-194), run by one timer
checkFileRecreated(st) ==
    LET s0 == [st EXCEPT !.timers = @ - 1] IN
    IF s0.deleted_files_infos_ = <<>> THEN s0
    ELSE
    LET info == Head(s0.deleted_files_infos_)
        s1 == [s0 EXCEPT !.deleted_files_infos_ = Tail(@)]
        path == getLocalCacheFilePath(info.repo_id, info.path_in_repo)
    IN
    IF Exists(path)
    THEN onFileChanged([s1 EXCEPT !.watcher_ = addPath(@, path),
                                  !.watch_infos_ = Put(@, path, info)],
                       path)
    ELSE s1

\* a variant that clears the whole registry
cleanCachedFile_All(st, cur_account) ==
    [st EXCEPT !.watch_infos_ = <<>>]

\* the registry part of AutoUpdateManager::cleanCachedFile (lines 91-95)
cleanCachedFile(st, cur_account) ==
    [st EXCEPT !.watch_infos_ =
        [k \in {x \in DOMAIN @ : ~(@[x].account = cur_account)} |-> @[k]]]


\* TransferManager::cancelAllDownloadTasks (line 89): cancels the download
\* tasks of the transfer manager; the upload tasks created in onFileChanged
\* by DataManager::createUploadTask are not download tasks
cancelAllDownloadTasks(st) == st

\* ---------------------------------------------------------------- Init
\* The state after construction (lines 52-56): nothing watched, nothing
\* queued, no upload.  The cache directory and the database exist, no file
\* is cached yet.
Init ==
    /\ watch_infos_ = <<>>
    /\ watcher_ = {}
    /\ deleted_files_infos_ = <<>>
    /\ timers = 0
    /\ tasks = EmptyBag
    /\ disk = {}
    /\ db_file = TRUE
    /\ tmp_dir = FALSE
    /\ cache_dir = TRUE
    /\ cleaners = <<>>
    /\ pool = 0
    /\ images_ = {}

Bounded(st) ==
    /\ BagCardinality(st.tasks) <= MaxTasks
    /\ Len(st.deleted_files_infos_) <= MaxQueue
    /\ st.timers <= MaxQueue

\* ------------------------------------------------------------- actions
WatchCachedFile(account, repo_id, path) ==
    /\ Store(watchCachedFile(St, account, repo_id, path))
    /\ UNCHANGED <<fsv, cleaners, pool, images_>>

RemoveWatch(local_path) ==
    /\ Store(removeWatch(St, local_path))
    /\ UNCHANGED <<fsv, cleaners, pool, images_>>

\* QThreadPool::globalInstance()->start(new CachedFilesCleaner()) (lines
\* 99-100).  account, run and failed are history: the account the cache is
\* cleaned for, the number of the run, whether an operation of it failed.
\* Only pool runnables are followed at a time.
StartCleaner(account) ==
    cleaners' = IF Len(cleaners) < pool
                THEN Append(cleaners, [pc |-> "db", account |-> account,
                                       run |-> 1, failed |-> FALSE])
                ELSE cleaners

\* AutoUpdateManager::cleanCachedFile (lines 86-101), also run by start();
\* cur_account is seafApplet->accountManager()->currentAccount()
CleanCachedFile(cur_account) ==
    /\ Store(cleanCachedFile(cancelAllDownloadTasks(St), cur_account))
    /\ StartCleaner(cur_account)
    /\ UNCHANGED <<fsv, pool, images_>>

\* the watcher emits fileChanged(local_path) for a path it watches
OnFileChanged(local_path) ==
    /\ local_path \in watcher_
    /\ LET s2 == onFileChanged(St, local_path) IN Bounded(s2) /\ Store(s2)
    /\ UNCHANGED <<fsv, cleaners, pool, images_>>

\* an upload task in flight emits finished(success)
OnUpdateTaskFinished(task, success) ==
    /\ BagIn(task, tasks)
    /\ Store(onUpdateTaskFinished(St, task, success))
    /\ UNCHANGED <<fsv, cleaners, pool, images_>>

\* one of the pending single-shot timers fires
CheckFileRecreated ==
    /\ timers > 0
    /\ LET s2 == checkFileRecreated(St) IN Bounded(s2) /\ Store(s2)
    /\ UNCHANGED <<fsv, cleaners, pool, images_>>

\* MacImageFilesWorkAround::fileOpened (lines 203-209)
FileOpened(path) ==
    /\ images_' = IF IsImageOrPdf(path) THEN images_ \cup {path} ELSE images_
    /\ UNCHANGED <<mgr, fsv, cleaners, pool>>

\* ten seconds pass after fileOpened(path) (line 214)
ImageExpires(path) ==
    /\ path \in images_
    /\ images_' = images_ \ {path}
    /\ UNCHANGED <<mgr, fsv, cleaners, pool>>

\* ---------------------------------------------------------- environment
\* an application removes or renames a cache file
FsDelete(local_path) ==
    /\ local_path \in disk
    /\ disk' = disk \ {local_path}
    /\ UNCHANGED <<mgr, db_file, tmp_dir, cache_dir, cleaners, pool, images_>>

\* a download or an application (re)creates a cache file
FsCreate(local_path) ==
    /\ local_path \notin disk
    /\ disk' = disk \cup {local_path}
    /\ cache_dir' = TRUE
    /\ UNCHANGED <<mgr, db_file, tmp_dir, cleaners, pool, images_>>

\* ------------------------------------------------------ CachedFilesCleaner
Fs == [disk |-> disk, db_file |-> db_file, tmp_dir |-> tmp_dir,
       cache_dir |-> cache_dir]

\* a variant that renames the cache directory away and does not delete it
run_NoDelete(c, f, ok) ==
    CASE c.pc = "db" ->
           IF f.db_file
           THEN [c |-> [c EXCEPT !.pc = "tmp", !.failed = @ \/ ~ok],
                 f |-> [f EXCEPT !.db_file = ~ok]]
           ELSE [c |-> [c EXCEPT !.pc = "tmp"], f |-> f]
      [] c.pc = "tmp" ->
           IF f.tmp_dir
           THEN [c |-> [c EXCEPT !.pc = "cache", !.failed = @ \/ ~ok],
                 f |-> [f EXCEPT !.tmp_dir = ~ok]]
           ELSE [c |-> [c EXCEPT !.pc = "cache"], f |-> f]
      [] c.pc = "cache" ->
           IF f.cache_dir
           THEN IF ok /\ ~f.tmp_dir
                THEN [c |-> [c EXCEPT !.pc = "done"],
                      f |-> [f EXCEPT !.cache_dir = FALSE, !.tmp_dir = TRUE,
                                      !.disk = {}]]
                ELSE [c |-> [c EXCEPT !.pc = "done", !.failed = TRUE], f |-> f]
           ELSE [c |-> [c EXCEPT !.pc = "done"], f |-> f]
      [] OTHER -> [c |-> c, f |-> f]

\* CachedFilesCleaner::run (lines 226-248), one filesystem operation at a
\* time; ok says whether the operation attempted in this step succeeds.
\* QFile::remove and delete_dir_recursively may fail, QDir::rename fails
\* when the new name exists.  c.failed records that an operation failed.
run(c, f, ok) ==
    CASE c.pc = "db" ->
           IF f.db_file
           THEN [c |-> [c EXCEPT !.pc = "tmp", !.failed = @ \/ ~ok],
                 f |-> [f EXCEPT !.db_file = ~ok]]
           ELSE [c |-> [c EXCEPT !.pc = "tmp"], f |-> f]
      [] c.pc = "tmp" ->
           IF f.tmp_dir
           THEN [c |-> [c EXCEPT !.pc = "cache", !.failed = @ \/ ~ok],
                 f |-> [f EXCEPT !.tmp_dir = ~ok]]
           ELSE [c |-> [c EXCEPT !.pc = "cache"], f |-> f]
      [] c.pc = "cache" ->
           IF f.cache_dir
           THEN IF ok /\ ~f.tmp_dir
                THEN [c |-> [c EXCEPT !.pc = "del"],
                      f |-> [f EXCEPT !.cache_dir = FALSE, !.tmp_dir = TRUE,
                                      !.disk = {}]]
                ELSE [c |-> [c EXCEPT !.pc = "del", !.failed = TRUE], f |-> f]
           ELSE [c |-> [c EXCEPT !.pc = "done"], f |-> f]
      [] c.pc = "del" ->
           IF f.tmp_dir
           THEN [c |-> [c EXCEPT !.pc = "done", !.failed = @ \/ ~ok],
                 f |-> [f EXCEPT !.tmp_dir = ~ok]]
           ELSE [c |-> [c EXCEPT !.pc = "done"], f |-> f]
      [] OTHER -> [c |-> c, f |-> f]

\* a pool thread executes the next operation of cleaners[i]
CleanerStep(i, ok) ==
    /\ i \in 1..Len(cleaners)
    /\ cleaners[i].pc # "done"
    /\ LET r == run(cleaners[i], Fs, ok) IN
        /\ cleaners' = [cleaners EXCEPT ![i] = r.c]
        /\ disk' = r.f.disk
        /\ db_file' = r.f.db_file
        /\ tmp_dir' = r.f.tmp_dir
        /\ cache_dir' = r.f.cache_dir
    /\ UNCHANGED <<mgr, pool, images_>>

\* CachedFilesCleaner::run is invoked again after it returned: the second
\* of two runs in a row
SecondRun(i) ==
    /\ i \in 1..Len(cleaners)
    /\ cleaners[i].pc = "done"
    /\ cleaners[i].run = 1
    /\ cleaners' = [cleaners EXCEPT ![i].pc = "db", ![i].run = 2]
    /\ UNCHANGED <<mgr, fsv, pool, images_>>

\* run() returned; QThreadPool deletes the runnable
CleanerExit(i) ==
    /\ i \in 1..Len(cleaners)
    /\ cleaners[i].pc = "done"
    /\ cleaners' = RemoveAt(cleaners, i)
    /\ UNCHANGED <<mgr, fsv, pool, images_>>

\* ------------------------------------------------------------- program
\* The event loop: the handlers of the manager and the environment.  The
\* files a cleaner removes disappear here as FsDelete steps.
Next ==
    \/ \E w \in WatchInputs : WatchCachedFile(w[1], w[2], w[3])
    \/ \E lp \in LocalPaths : RemoveWatch(lp)
    \/ \E a \in Accounts : CleanCachedFile(a)
    \/ \E lp \in LocalPaths : OnFileChanged(lp)
    \/ \E t \in BagToSet(tasks), success \in BOOLEAN : OnUpdateTaskFinished(t, success)
    \/ CheckFileRecreated
    \/ \E lp \in LocalPaths : FileOpened(lp)
    \/ \E lp \in LocalPaths : ImageExpires(lp)
    \/ \E lp \in LocalPaths : FsDelete(lp)
    \/ \E lp \in LocalPaths : FsCreate(lp)

Spec == Init /\ [][Next]_vars

\* The event loop with the re-check timers fired fairly.  A pending
\* QTimer::singleShot is never cancelled and the event loop fires it: a
\* firing is enabled as long as a timer is pending.  So that the bound on
\* the uploads never holds a firing back, a change notification leaves room
\* for the upload that each queued entry may start when its timer fires.
OnFileChangedFair(local_path) ==
    /\ local_path \in watcher_
    /\ LET s2 == onFileChanged(St, local_path) IN
        /\ Bounded(s2)
        /\ BagCardinality(s2.tasks) + Len(s2.deleted_files_infos_) <= MaxTasks
        /\ Store(s2)
    /\ UNCHANGED <<fsv, cleaners, pool, images_>>

NextFair ==
    \/ \E w \in WatchInputs : WatchCachedFile(w[1], w[2], w[3])
    \/ \E lp \in LocalPaths : RemoveWatch(lp)
    \/ \E a \in Accounts : CleanCachedFile(a)
    \/ \E lp \in LocalPaths : OnFileChangedFair(lp)
    \/ \E t \in BagToSet(tasks), success \in BOOLEAN : OnUpdateTaskFinished(t, success)
    \/ CheckFileRecreated
    \/ \E lp \in LocalPaths : FileOpened(lp)
    \/ \E lp \in LocalPaths : ImageExpires(lp)
    \/ \E lp \in LocalPaths : FsDelete(lp)
    \/ \E lp \in LocalPaths : FsCreate(lp)

SpecFair == Init /\ [][NextFair]_vars /\ WF_vars(CheckFileRecreated)

\* The event loop of one cache file together with the pool threads: the
\* cleaners that cleanCachedFile starts are followed.
PoolRepo == "r1"
PoolPath == "a"
PoolFile == getLocalCacheFilePath(PoolRepo, PoolPath)

InitPool ==
    /\ watch_infos_ = <<>>
    /\ watcher_ = {}
    /\ deleted_files_infos_ = <<>>
    /\ timers = 0
    /\ tasks = EmptyBag
    /\ disk = {}
    /\ db_file = TRUE
    /\ tmp_dir = FALSE
    /\ cache_dir = TRUE
    /\ cleaners = <<>>
    /\ pool = MaxCleaners
    /\ images_ = {}

NextPool ==
    \/ \E a \in Accounts : WatchCachedFile(a, PoolRepo, PoolPath)
    \/ \E a \in Accounts : CleanCachedFile(a)
    \/ OnFileChanged(PoolFile)
    \/ \E t \in BagToSet(tasks), success \in BOOLEAN : OnUpdateTaskFinished(t, success)
    \/ CheckFileRecreated
    \/ FsCreate(PoolFile)
    \/ FsDelete(PoolFile)
    \/ \E i \in 1..MaxCleaners, ok \in BOOLEAN : CleanerStep(i, ok)
    \/ \E i \in 1..MaxCleaners : CleanerExit(i)

SpecPool == InitPool /\ [][NextPool]_vars

\* CachedFilesCleaner::run alone, twice in a row, on any state of the three
\* well-known names, with no other thread touching the cache.
InitCleaner ==
    /\ watch_infos_ = <<>>
    /\ watcher_ = {}
    /\ deleted_files_infos_ = <<>>
    /\ timers = 0
    /\ tasks = EmptyBag
    /\ disk \in SUBSET LocalPaths
    /\ db_file \in BOOLEAN
    /\ tmp_dir \in BOOLEAN
    /\ cache_dir \in BOOLEAN
    /\ disk # {} => cache_dir
    /\ \E a \in Accounts :
         cleaners = <<[pc |-> "db", account |-> a, run |-> 1, failed |-> FALSE]>>
    /\ pool = 1
    /\ images_ = {}

NextCleaner ==
    \/ \E ok \in BOOLEAN : CleanerStep(1, ok)
    \/ SecondRun(1)
    \/ CleanerExit(1)

SpecCleaner == InitCleaner /\ [][NextCleaner]_vars

\* ================================================================ claims
Registered(st, local_path) == local_path \in DOMAIN st.watch_infos_
Armed(st, local_path) == local_path \in st.watcher_
TasksOf(st, local_path) == {t \in BagToSet(st.tasks) : t.local_path = local_path}
\* the local paths of the entries in the deferred queue
QueuedPaths(st) ==
    {getLocalCacheFilePath(st.deleted_files_infos_[i].repo_id,
                           st.deleted_files_infos_[i].path_in_repo) :
        i \in 1..Len(st.deleted_files_infos_)}

\* C1: watchCachedFile for a path that is neither registered nor queued and
\* whose file exists leaves the path armed and registered exactly once, with
\* the given account, repo_id and path_in_repo and uploading = false.
C1_WatchRegisters ==
    \A a \in Accounts, r \in Repos, p \in PathsInRepo :
        LET lp == getLocalCacheFilePath(r, p)
            s2 == watchCachedFile(St, a, r, p)
        IN  (/\ ~Registered(St, lp)
             /\ lp \notin QueuedPaths(St)
             /\ lp \in disk)
            => /\ Armed(s2, lp)
               /\ Registered(s2, lp)
               /\ DOMAIN s2.watch_infos_ = DOMAIN watch_infos_ \cup {lp}
               /\ Cardinality(DOMAIN s2.watch_infos_)
                    = Cardinality(DOMAIN watch_infos_) + 1
               /\ s2.watch_infos_[lp] = [account |-> a, repo_id |-> r,
                                          path_in_repo |-> p, uploading |-> FALSE]

\* a new path can be registered while another entry waits in the queue
C1_Witness ==
    \E a \in Accounts, r \in Repos, p \in PathsInRepo :
        LET lp == getLocalCacheFilePath(r, p) IN
        /\ ~Registered(St, lp)
        /\ lp \notin QueuedPaths(St)
        /\ lp \in disk
        /\ deleted_files_infos_ # <<>>
        /\ watchCachedFile(St, a, r, p) # St

\* C2: watchCachedFile for a (repo_id, path_in_repo) that is in the deferred
\* queue changes nothing (registry, armed set, queue, timers), whether or
\* not the file exists.
C2_QueuedWatchIsNoOp ==
    \A a \in Accounts, r \in Repos, p \in PathsInRepo :
        getLocalCacheFilePath(r, p) \in QueuedPaths(St)
            => watchCachedFile(St, a, r, p) = St

\* a queued path whose file exists again: only the queue stops the call
C2_Witness ==
    \E r \in Repos, p \in PathsInRepo :
        /\ getLocalCacheFilePath(r, p) \in QueuedPaths(St)
        /\ getLocalCacheFilePath(r, p) \in disk
        /\ timers > 0

\* C7: cleanCachedFile with current account A removes exactly the entries of
\* account A; the entries of other accounts stay, unchanged.
C7_CleanRemovesOnlyAccount ==
    \A cur \in Accounts :
        LET s2 == cleanCachedFile(cancelAllDownloadTasks(St), cur) IN
        /\ \A k \in DOMAIN s2.watch_infos_ : s2.watch_infos_[k].account # cur
        /\ DOMAIN s2.watch_infos_ \subseteq DOMAIN watch_infos_
        /\ \A k \in DOMAIN watch_infos_ :
              watch_infos_[k].account # cur
                  => /\ k \in DOMAIN s2.watch_infos_
                     /\ s2.watch_infos_[k] = watch_infos_[k]

\* the registry holds entries of two accounts
C7_Witness ==
    \E k1, k2 \in DOMAIN watch_infos_ :
        /\ watch_infos_[k1].account \in Accounts
        /\ watch_infos_[k2].account \in Accounts
        /\ watch_infos_[k1].account # watch_infos_[k2].account

\* C10: watchCachedFile for a path whose cache file does not exist changes
\* nothing: registry, armed set, queue and timers are as before and no
\* upload is started.
C10_MissingFileIsSkipped ==
    \A a \in Accounts, r \in Repos, p \in PathsInRepo :
        getLocalCacheFilePath(r, p) \notin disk
            => watchCachedFile(St, a, r, p) = St

\* the file of a registered path is gone and the path is not queued
C10_Witness ==
    \E r \in Repos, p \in PathsInRepo :
        LET lp == getLocalCacheFilePath(r, p) IN
        /\ lp \notin disk
        /\ lp \notin QueuedPaths(St)
        /\ Registered(St, lp)

\* what onFileChanged does with a registered path whose file is gone,
\* according to C4
MovedToQueue(s2, lp) ==
    /\ ~Registered(s2, lp)
    /\ ~Armed(s2, lp)
    /\ s2.deleted_files_infos_ = Append(deleted_files_infos_, watch_infos_[lp])
    /\ s2.timers = timers + 1
    /\ s2.tasks = tasks
    /\ s2.watch_infos_ = Remove(watch_infos_, lp)

\* C4 as claimed: a change notification for a registered path whose file no
\* longer exists removes the path from the registry, disarms it, appends its
\* entry to the tail of the queue, schedules exactly one re-check and starts
\* no upload.
C4_Claim ==
    \A lp \in LocalPaths :
        (Armed(St, lp) /\ Registered(St, lp) /\ lp \notin disk)
            => MovedToQueue(onFileChanged(St, lp), lp)

\* C4 as amended: the same for a change notification that the suppression
\* hook (isRecentOpenedImage, Q_OS_MAC) does not classify as spurious.
C4_DeletedFileIsDeferred ==
    \A lp \in LocalPaths :
        (Armed(St, lp) /\ Registered(St, lp) /\ lp \notin disk
            /\ lp \notin images_)
            => MovedToQueue(onFileChanged(St, lp), lp)

\* a watched file is gone while another entry already waits in the queue
C4_Witness ==
    \E lp \in LocalPaths :
        /\ Armed(St, lp) /\ Registered(St, lp) /\ lp \notin disk
        /\ lp \notin images_
        /\ Len(deleted_files_infos_) = 1
        /\ Bounded(onFileChanged(St, lp))

\* C3: a change notification for a registered path whose file exists starts
\* exactly one upload for the path, with the overwrite flag set, and the
\* registry entry of the path has uploading = true from the start of the
\* upload until its terminal callback, that is, as long as the task is in
\* flight.  (Stated for the notifications that the suppression hook lets
\* pass.)
C3_Claim ==
    /\ \A lp \in LocalPaths :
          (Armed(St, lp) /\ Registered(St, lp) /\ lp \in disk
              /\ lp \notin images_)
              => LET s2 == onFileChanged(St, lp) IN
                 /\ \E t \in BagToSet(s2.tasks) :
                       /\ t.local_path = lp
                       /\ t.overwrite
                       /\ s2.tasks = tasks (+) One(t)
                 /\ Registered(s2, lp)
                 /\ s2.watch_infos_[lp].uploading
    /\ \A t \in BagToSet(tasks) :
          /\ Registered(St, t.local_path)
          /\ watch_infos_[t.local_path].uploading

\* C5: when the re-check fires for a deferred path: if the file exists
\* again, the path is re-registered and exactly one upload is started for
\* it; if it does not, the entry is dropped and the path is afterwards in
\* neither the registry nor the queue, it is not armed and no upload of it
\* is started.  (Stated for the notifications that the suppression hook
\* lets pass.)
C5_Claim ==
    (timers > 0 /\ deleted_files_infos_ # <<>>)
        => LET info == Head(deleted_files_infos_)
               path == getLocalCacheFilePath(info.repo_id, info.path_in_repo)
               s2 == checkFileRecreated(St)
           IN  /\ (path \in disk /\ path \notin images_)
                    => /\ Registered(s2, path)
                       /\ \E t \in BagToSet(s2.tasks) :
                             /\ t.local_path = path
                             /\ s2.tasks = tasks (+) One(t)
               /\ path \notin disk
                    => /\ ~Registered(s2, path)
                       /\ path \notin QueuedPaths(s2)
                       /\ ~Armed(s2, path)
                       /\ s2.tasks = tasks
                       /\ s2.timers = timers - 1

\* C6: after the terminal callback of an upload: on success the path is
\* armed again (its file still being there) and its registry entry has
\* uploading = false; on failure the path is absent from the registry and
\* not armed.
C6_Claim ==
    \A t \in BagToSet(tasks) :
        LET lp == t.local_path
            ok == onUpdateTaskFinished(St, t, TRUE)
            ko == onUpdateTaskFinished(St, t, FALSE)
        IN  /\ lp \in disk => Armed(ok, lp)
            /\ Registered(ok, lp)
            /\ ~ok.watch_infos_[lp].uploading
            /\ ~Registered(ko, lp)
            /\ ~Armed(ko, lp)

\* C8: whenever a CachedFilesCleaner is running, no upload of the account
\* whose cache it cleans is in flight: cleanCachedFile has cancelled the
\* uploads of the account before it starts the cleaner.
C8_Claim ==
    \A i \in 1..Len(cleaners) :
        cleaners[i].pc # "done"
            => \A t \in BagToSet(tasks) : t.account # cleaners[i].account

AllAbsent == ~db_file /\ ~tmp_dir /\ ~cache_dir /\ disk = {}

C11_Claim ==
    \A lp \in LocalPaths :
        TasksOf(St, lp) = {} => (Armed(St, lp) <=> Registered(St, lp))


\* C12: a path whose entry is in the deferred queue is neither in the
\* registry nor armed in the watcher, and no (repo_id, path_in_repo) pair
\* occurs twice in the queue.
C12_Claim ==
    /\ \A lp \in QueuedPaths(St) : ~Registered(St, lp) /\ ~Armed(St, lp)
    /\ \A i, j \in 1..Len(deleted_files_infos_) :
          (/\ deleted_files_infos_[i].repo_id = deleted_files_infos_[j].repo_id
           /\ deleted_files_infos_[i].path_in_repo
                = deleted_files_infos_[j].path_in_repo)
              => i = j


\* C13: the registry entry of a path has uploading = true if and only if an
\* upload of the path is in flight (started, terminal callback not yet run).
C13_Claim ==
    \A lp \in DOMAIN watch_infos_ :
        watch_infos_[lp].uploading <=> TasksOf(St, lp) # {}


\* the number of uploads of local_path that are in flight
InFlight(st, local_path) ==
    BagCardinality([t \in TasksOf(st, local_path) |-> st.tasks[t]])

\* C14: at most one upload per local path is in flight at any time.
C14_Claim ==
    \A lp \in LocalPaths : InFlight(St, lp) <= 1


\* C15: the number of pending re-check timers equals the length of the
\* deferred queue, so the queue is not empty when checkFileRecreated fires;
\* a firing takes exactly the oldest entry off the queue and leaves the
\* others in their order, and a deletion appends its entry at the tail
\* together with one new timer.  Timers of equal delay fire in the order
\* they were scheduled, so the i-th pending timer belongs to the i-th entry.
C15_FifoOnePerTimer ==
    /\ timers = Len(deleted_files_infos_)
    /\ timers > 0 =>
          LET s2 == checkFileRecreated(St) IN
          /\ deleted_files_infos_ # <<>>
          /\ s2.deleted_files_infos_ = Tail(deleted_files_infos_)
          /\ s2.timers = Len(s2.deleted_files_infos_)
    /\ \A lp \in LocalPaths :
          LET s2 == onFileChanged(St, lp) IN
          \/ /\ s2.deleted_files_infos_ = deleted_files_infos_
             /\ s2.timers = timers
          \/ /\ Registered(St, lp)
             /\ s2.deleted_files_infos_
                  = Append(deleted_files_infos_, watch_infos_[lp])
             /\ s2.timers = timers + 1

\* two different entries wait in the queue, each with its timer
C15_Witness ==
    /\ Len(deleted_files_infos_) = 2
    /\ deleted_files_infos_[1] # deleted_files_infos_[2]
    /\ timers = 2
    /\ Bounded(checkFileRecreated(St))


\* a step that puts no entry into the deferred queue: no deletion is observed
NoDeletionObserved ==
    Len(deleted_files_infos_') <= Len(deleted_files_infos_)

\* C16: with the re-check timers fired fairly, a pending re-check always
\* fires (re-checks keep firing if timers stay pending), and once no further
\* deletion is observed the deferred queue becomes empty and stays empty:
\* every queued entry has left the queue.
C16_QueueDrains ==
    /\ <>[](timers > 0) => []<><<CheckFileRecreated>>_vars
    /\ <>[][NoDeletionObserved]_vars => <>[](deleted_files_infos_ = <<>>)

\* two entries wait in the queue and the file of the oldest is still missing
C16_Witness ==
    /\ Len(deleted_files_infos_) = 2
    /\ timers = 2
    /\ getLocalCacheFilePath(Head(deleted_files_infos_).repo_id,
                             Head(deleted_files_infos_).path_in_repo) \notin disk


\* C17: a change notification for a path that is not in the registry starts
\* no upload, schedules no re-check and leaves the registry and the deferred
\* queue as they are; its only effect is that the path is no longer armed.
C17_Claim ==
    \A lp \in LocalPaths :
        (Armed(St, lp) /\ ~Registered(St, lp))
            => LET s2 == onFileChanged(St, lp) IN
               /\ s2.tasks = tasks
               /\ s2.timers = timers
               /\ s2.watch_infos_ = watch_infos_
               /\ s2.deleted_files_infos_ = deleted_files_infos_
               /\ s2.watcher_ = watcher_ \ {lp}


\* C18: a change notification disarms the path before the suppression hook
\* is consulted: an event for a recently opened image or PDF leaves the path
\* disarmed, starts no upload and changes neither the registry nor the queue.
C18_Claim ==
    \A lp \in LocalPaths :
        (Armed(St, lp) /\ lp \in images_)
            => LET s2 == onFileChanged(St, lp) IN
               /\ ~Armed(s2, lp)
               /\ s2.tasks = tasks
               /\ s2.watch_infos_ = watch_infos_
               /\ s2.deleted_files_infos_ = deleted_files_infos_


\* C19: the terminal callback of an upload, successful or not, never adds a
\* path to the registry: a path that is not registered when the callback
\* runs is afterwards still not registered and not armed; every registry
\* entry carries an account, a repo_id and a path_in_repo given to
\* watchCachedFile, and is kept under the local path of that file.
C19_Claim ==
    /\ \A t \in BagToSet(tasks), success \in BOOLEAN :
          LET lp == t.local_path
              s2 == onUpdateTaskFinished(St, t, success)
          IN  (~Registered(St, lp) /\ ~Armed(St, lp))
                  => (~Registered(s2, lp) /\ ~Armed(s2, lp))
    /\ \A lp \in DOMAIN watch_infos_ :
          /\ watch_infos_[lp].account \in Accounts
          /\ watch_infos_[lp].repo_id \in Repos
          /\ watch_infos_[lp].path_in_repo \in PathsInRepo
          /\ getLocalCacheFilePath(watch_infos_[lp].repo_id,
                                   watch_infos_[lp].path_in_repo) = lp


\* the number of uploads of an account that are in flight
UploadsOfAccount(st, account) ==
    BagCardinality([t \in {u \in BagToSet(st.tasks) : u.account = account}
                        |-> st.tasks[t]])

\* the registry has no entry of the account and no upload of the account
\* has been started since the state before
NothingOfAccount(before, st, account) ==
    /\ \A k \in DOMAIN st.watch_infos_ : st.watch_infos_[k].account # account
    /\ UploadsOfAccount(st, account) <= UploadsOfAccount(before, account)

\* C20: after cleanCachedFile for an account the registry has no entry of
\* the account, and the next step of the event loop that is not a
\* watchCachedFile call (a re-check timer firing, a change notification, an
\* upload completion, a removeWatch) neither registers a path for the
\* account nor starts an upload for it.
C20_Claim ==
    \A cur \in Accounts :
        LET s1 == cleanCachedFile(cancelAllDownloadTasks(St), cur) IN
        /\ NothingOfAccount(St, s1, cur)
        /\ s1.timers > 0 => NothingOfAccount(s1, checkFileRecreated(s1), cur)
        /\ \A lp \in s1.watcher_ :
              NothingOfAccount(s1, onFileChanged(s1, lp), cur)
        /\ \A t \in BagToSet(s1.tasks), success \in BOOLEAN :
              NothingOfAccount(s1, onUpdateTaskFinished(s1, t, success), cur)
        /\ \A lp \in LocalPaths :
              NothingOfAccount(s1, removeWatch(s1, lp), cur)

====
